---------------------------- MODULE Spec2Model ----------------------------
(***************************************************************************)
(* A model of the DNS server of app/server: the domain-name and question   *)
(* codec of question.go, the request envelope of request.go and the UDP    *)
(* loop of server.go.                                                      *)
(*                                                                         *)
(* A Go string and a Go []byte are sequences of bytes (0..255).  A Go      *)
(* slice is a record [arr, len]: arr is the backing array up to the        *)
(* slice's capacity, len the slice's length.  Indexing is checked against  *)
(* len, re-slicing against the capacity, as the Go runtime does.           *)
(*                                                                         *)
(* Three machines share the module:                                        *)
(*   Spec         the Listen loop of server.go                             *)
(*   SpecCodec    EncodeDomainName / ParseDomainName / Question.Marshal /  *)
(*                ParseQuestion applied to drawn names and questions       *)
(*   SpecPointer  ParseDomainName applied to messages that are laid down   *)
(*                name by name, with compression pointers                  *)
(***************************************************************************)
EXTENDS Integers, Sequences, FiniteSets, TLC

VARIABLES
    \* ---- Listen (server.go)
    pc,        \* position of the Listen loop
    buf,       \* the receive buffer, allocated once before the loop: the bytes
               \* up to the last one ever written (make zeroes the rest)
    size,      \* bytes of the datagram last read
    source,    \* source address of the datagram last read
    dgram,     \* the datagram last read, as it was on the wire (history)
    request,   \* the *Request of the current iteration
    response,  \* the response buffer of the current iteration
    log,       \* the receives and sends so far (history)
    retErr,    \* which call's error Listen returned
    \* ---- codec round trips (question.go)
    phase, inName, inType, inClass, enc, dec,
    \* ---- compression pointers (question.go)
    msg,       \* the message bytes laid down so far
    nameAt,    \* <<offset, name>>: the name that was laid down there (history)
    entries,   \* the names laid down, in order (history)
    res,       \* result of the last ParseDomainName
    resStart   \* the offset it was started at

srvVars == <<pc, buf, size, source, dgram, request, response, log, retErr>>
codecVars == <<phase, inName, inType, inClass, enc, dec>>
ptrVars == <<msg, nameAt, entries, res, resStart>>
vars == <<srvVars, codecVars, ptrVars>>

---------------------------------------------------------------------------
(* Bounds of the model *)

\* longest name drawn byte by byte over NameAlphabet
MaxNameLen == 4
\* most labels of a name drawn with long labels
MaxLongLabels == 4
\* most names laid down in one message
MaxEntries == 3
\* most datagrams one run of Listen receives
MaxDatagrams == 2

---------------------------------------------------------------------------
(* Bytes, strings, slices *)

Dot == 46

Zeros(n) == [i \in 1..n |-> 0]

\* a slice over a fresh array holding exactly these bytes (len = cap)
MkSlice(bytes) == [arr |-> bytes, len |-> Len(bytes)]

Cap(s) == Len(s.arr)

\* s[i], 0-based, for an index the caller has checked against s.len
At(s, i) == s.arr[i + 1]

\* the bytes of s[lo:hi], 0-based, for bounds the caller has checked
Bytes(s, lo, hi) == SubSeq(s.arr, lo + 1, hi)

\* strings.Join(labels, ".")
RECURSIVE Join(_)
Join(labels) ==
    IF labels = <<>> THEN <<>>
    ELSE IF Len(labels) = 1 THEN labels[1]
    ELSE labels[1] \o <<Dot>> \o Join(Tail(labels))

\* strings.Split(s, "."): always at least one piece
RECURSIVE Split(_)
Split(s) ==
    IF \A i \in 1..Len(s) : s[i] # Dot THEN <<s>>
    ELSE LET d == CHOOSE i \in 1..Len(s) :
                     s[i] = Dot /\ \A j \in 1..(i - 1) : s[j] # Dot
         IN <<SubSeq(s, 1, d - 1)>> \o Split(SubSeq(s, d + 1, Len(s)))

\* binary.BigEndian.Uint16 of the two bytes b0 b1
Uint16(b0, b1) == b0 * 256 + b1

\* binary.BigEndian.PutUint16
PutUint16(v) == <<(v \div 256) % 256, v % 256>>

---------------------------------------------------------------------------
(* ParseDomainName, question.go 91-130 *)

\* what a call ends in: a return, a run-time panic (index or slice bounds
\* out of range) or the fatal stack overflow of a recursion without end
Ok(name, offset) == [status |-> "ok", name |-> name, offset |-> offset]
Panic == [status |-> "panic", name |-> <<>>, offset |-> 0]
StackOverflow == [status |-> "overflow", name |-> <<>>, offset |-> 0]

\* line 106: the length byte is a compression pointer
IsPointer(labelLength) == labelLength >= 192

\* line 109: the 14-bit target, low 6 bits of the first byte and the next byte
PointerOffset(labelLength, next) == (labelLength % 64) * 256 + next

\* lines 116-119: the result at a pointer
PointerResultInnerOffset(labels, pointerName, currentOffset) ==
    IF Len(labels) > 0
    THEN Ok(Join(labels) \o <<Dot>> \o pointerName, currentOffset - 1)
    ELSE Ok(pointerName, currentOffset - 1)
PointerResult(labels, pointerName, currentOffset) ==
    IF Len(labels) > 0
    THEN Ok(Join(labels) \o <<Dot>> \o pointerName, currentOffset)
    ELSE Ok(pointerName, currentOffset)

\* line 123: label := string(buf[currentOffset : currentOffset+labelLength])
ReadLabelShort(b, currentOffset, labelLength) ==
    Bytes(b, currentOffset, currentOffset + labelLength - 1)
ReadLabel(b, currentOffset, labelLength) ==
    Bytes(b, currentOffset, currentOffset + labelLength)

\* the positions of b that hold a pointer's first byte value
PointerBytes(b) == {i \in 0..(b.len - 1) : IsPointer(At(b, i))}

\* A call of ParseDomainName with `depth` calls of it below on the stack.
\* Each frame's loop only moves forward, so a frame ends or recurses.  A
\* frame recurses at the first pointer it meets, to the target that pointer
\* holds.  More nested calls than b has pointer bytes means two of them were
\* made at the same pointer, so to the same offset; as a call is a function
\* of (buf, offset) the recursion then never returns, and the Go runtime
\* ends the process with a stack overflow.
RECURSIVE ParseLoop(_, _, _, _)
ParseLoop(b, currentOffset, labels, depth) ==
    IF currentOffset >= b.len THEN Panic                         \* line 96
    ELSE LET labelLength == At(b, currentOffset)
             afterLen == currentOffset + 1                       \* line 97
         IN
         IF labelLength = 0 THEN Ok(Join(labels), afterLen)      \* 99, 129
         ELSE IF IsPointer(labelLength) THEN
             IF afterLen >= b.len THEN Panic                     \* line 109
             ELSE LET pointerOffset ==
                          PointerOffset(labelLength, At(b, afterLen))
                      inner ==
                          IF depth + 1 > Cardinality(PointerBytes(b))
                          THEN StackOverflow
                          ELSE ParseLoop(b, pointerOffset, <<>>, depth + 1)
                  IN IF inner.status # "ok" THEN inner
                     ELSE PointerResult(labels, inner.name, afterLen + 1)
         ELSE IF afterLen + labelLength > Cap(b) THEN Panic      \* line 123
         ELSE ParseLoop(b, afterLen + labelLength,
                        Append(labels, ReadLabel(b, afterLen, labelLength)),
                        depth)

ParseDomainName(b, offset) == ParseLoop(b, offset, <<>>, 0)

---------------------------------------------------------------------------
(* EncodeDomainName, question.go 134-172 *)

\* lines 156-166: a non-empty label is written as its length byte and its
\* bytes, an empty one is skipped
EncodeLabel(label) ==
    IF Len(label) > 0 THEN <<Len(label) % 256>> \o label ELSE <<>>

RECURSIVE EncodeLabels(_)
EncodeLabels(labels) ==
    IF labels = <<>> THEN <<>>
    ELSE EncodeLabel(Head(labels)) \o EncodeLabels(Tail(labels))

EncodeDomainNameNoTerminator(domainName) ==
    IF domainName = <<>> \/ domainName = <<Dot>> THEN <<>>
    ELSE EncodeLabels(Split(domainName))
EncodeDomainName(domainName) ==
    IF domainName = <<>> \/ domainName = <<Dot>> THEN <<0>>      \* 135-137
    ELSE EncodeLabels(Split(domainName)) \o <<0>>                \* 140-171

---------------------------------------------------------------------------
(* Question.Marshal and ParseQuestion, question.go 175-195 and 67-84 *)

Question(name, type, class) == [Name |-> name, Type |-> type, Class |-> class]

QuestionMarshalClassFirst(q) ==
    EncodeDomainName(q.Name) \o PutUint16(q.Class) \o PutUint16(q.Type)
QuestionMarshal(q) ==
    EncodeDomainName(q.Name) \o PutUint16(q.Type) \o PutUint16(q.Class)

QOk(q, offset) == [status |-> "ok", q |-> q, offset |-> offset]
QFail(status) == [status |-> status, q |-> Question(<<>>, 0, 0), offset |-> 0]

\* buf[newOffset : newOffset+2] is a re-slice, checked against the capacity
ParseQuestion(b, offset) ==
    LET n == ParseDomainName(b, offset) IN
    IF n.status # "ok" THEN QFail(n.status)
    ELSE IF n.offset + 2 > Cap(b) THEN QFail("panic")            \* line 72
    ELSE IF n.offset + 4 > Cap(b) THEN QFail("panic")            \* line 76
    ELSE QOk(Question(n.name,
                      Uint16(At(b, n.offset), At(b, n.offset + 1)),
                      Uint16(At(b, n.offset + 2), At(b, n.offset + 3))),
             n.offset + 4)

---------------------------------------------------------------------------
(* The header codec.  header.go is not among the source files: ParseHeader, *)
(* NewFlag, SetQR and Header.Marshal follow the layout the specification   *)
(* gives (six big-endian 16-bit fields; QR is the top bit of the flags).   *)

HeaderLen == 12

ParseHeader(b) ==
    [ID      |-> Uint16(At(b, 0), At(b, 1)),
     Flag    |-> Uint16(At(b, 2), At(b, 3)),
     QDCount |-> Uint16(At(b, 4), At(b, 5)),
     ANCount |-> Uint16(At(b, 6), At(b, 7)),
     NSCount |-> Uint16(At(b, 8), At(b, 9)),
     ARCount |-> Uint16(At(b, 10), At(b, 11))]

NewFlag(bytes) == Uint16(bytes[1], bytes[2])

SetQR(flag, on) == IF on THEN (flag % 32768) + 32768 ELSE flag % 32768

HeaderMarshal(h) ==
    PutUint16(h.ID) \o PutUint16(h.Flag) \o PutUint16(h.QDCount)
        \o PutUint16(h.ANCount) \o PutUint16(h.NSCount) \o PutUint16(h.ARCount)

---------------------------------------------------------------------------
(* ParseRequest, request.go 9-13 *)

Nil == "nil"

\* a Go interface{} value: nil, or holding a value
NilIface == [isNil |-> TRUE]
Iface(v) == [isNil |-> FALSE, value |-> v]

RequestPanic == [status |-> "panic"]

\* buf[:12] is a re-slice: it panics only past the capacity, and within it
\* reaches whatever the backing array holds beyond the slice's length;
\* Question and Answer are left nil
ParseRequest(b) ==
    IF HeaderLen > Cap(b) THEN RequestPanic
    ELSE [status   |-> "ok",
          Header   |-> ParseHeader([arr |-> b.arr, len |-> HeaderLen]),
          Question |-> NilIface,
          Answer   |-> NilIface]

---------------------------------------------------------------------------
(* Listen, server.go 22-63 *)

BufSize == 512
ResponseSize == 512

ServerAddr == "127.0.0.1:2053"
Sources == {"10.0.0.1:5353", "10.0.0.2:40000"}

\* lines 42-56: the response header and the response buffer
BuildResponseKeepFlags(req) ==
    LET header == [ID      |-> req.Header.ID,
                   Flag    |-> SetQR(req.Header.Flag, TRUE),
                   QDCount |-> req.Header.QDCount,
                   ANCount |-> req.Header.ANCount,
                   NSCount |-> req.Header.NSCount,
                   ARCount |-> req.Header.ARCount]
    IN HeaderMarshal(header) \o Zeros(ResponseSize - HeaderLen)
BuildResponse(req) ==
    LET header == [ID      |-> req.Header.ID,
                   Flag    |-> SetQR(NewFlag(<<0, 0>>), TRUE),
                   QDCount |-> req.Header.QDCount,
                   ANCount |-> req.Header.ANCount,
                   NSCount |-> req.Header.NSCount,
                   ARCount |-> req.Header.ARCount]
        responseHeader == HeaderMarshal(header)
        n == IF Len(responseHeader) < HeaderLen THEN Len(responseHeader)
             ELSE HeaderLen
    IN SubSeq(responseHeader, 1, n) \o Zeros(ResponseSize - n)

\* line 58: the response goes to the address the datagram came from
ResponseDestServer(src) == ServerAddr
ResponseDest(src) == src

(* The datagrams the network delivers.  Each carries, beside its bytes, what *)
(* its sender put in it (kind, q): history the program never reads.        *)

Wire16(v) == <<v \div 256, v % 256>>

WireHeader(id, flags, qd, an, ns, ar) ==
    Wire16(id) \o Wire16(flags) \o Wire16(qd) \o Wire16(an) \o Wire16(ns)
        \o Wire16(ar)

RECURSIVE WireLabels(_)
WireLabels(labels) ==
    IF labels = <<>> THEN <<>>
    ELSE <<Len(Head(labels))>> \o Head(labels) \o WireLabels(Tail(labels))

WireQuestion(q) ==
    WireLabels(Split(q.Name)) \o <<0>> \o Wire16(q.Type) \o Wire16(q.Class)

\* "codecrafters.io"
CodecraftersIo ==
    <<99, 111, 100, 101, 99, 114, 97, 102, 116, 101, 114, 115, 46, 105, 111>>

IDs == {4660, 43981}
FlagWords == {0, 65535}
SrvQuestions == {Question(CodecraftersIo, 1, 1), Question(<<97, 46, 98>>, 28, 255)}
TruncSizes == {0, 1, 11}

NoQuestion == Question(<<>>, 0, 0)

Queries ==
    {[kind |-> "query", q |-> q,
      bytes |-> WireHeader(id, fl, 1, 0, 0, 0) \o WireQuestion(q)] :
        id \in IDs, fl \in FlagWords, q \in SrvQuestions}

HeaderOnly ==
    {[kind |-> "header", q |-> NoQuestion,
      bytes |-> WireHeader(4660, 0, 0, 0, 0, 0)],
     [kind |-> "header", q |-> NoQuestion,
      bytes |-> WireHeader(43981, 65535, 2, 3, 258, 65535)]}

Truncated ==
    {[kind |-> "truncated", q |-> NoQuestion,
      bytes |-> SubSeq(WireHeader(id, 65535, 1, 0, 0, 0), 1, n)] :
        id \in IDs, n \in TruncSizes}

\* a length byte that claims more label bytes than the datagram holds
Overrun ==
    {[kind |-> "overrun", q |-> NoQuestion,
      bytes |-> WireHeader(4660, 0, 1, 0, 0, 0) \o <<5, 97>>]}

\* a compression pointer at offset 12 that points at itself
BadPointer ==
    {[kind |-> "badptr", q |-> NoQuestion,
      bytes |-> WireHeader(4660, 0, 1, 0, 0, 0) \o <<192, 12, 0, 1, 0, 1>>]}

Datagrams == Queries \cup HeaderOnly \cup Truncated \cup Overrun \cup BadPointer

NoDatagram == [kind |-> "none", q |-> NoQuestion, bytes |-> <<>>]

Received == Len(SelectSeq(log, LAMBDA e : e.op = "recv"))

\* the 512 bytes of buf
BufArray == buf \o Zeros(BufSize - Len(buf))

SrvInit ==
    /\ pc = "listen"
    /\ buf = <<>>
    /\ size = 0
    /\ source = Nil
    /\ dgram = NoDatagram
    /\ request = Nil
    /\ response = <<>>
    /\ log = <<>>
    /\ retErr = Nil

SrvIdle ==
    /\ pc = "idle"
    /\ buf = <<>>
    /\ size = 0
    /\ source = Nil
    /\ dgram = NoDatagram
    /\ request = Nil
    /\ response = <<>>
    /\ log = <<>>
    /\ retErr = Nil

\* lines 23-29
ListenUDP ==
    /\ pc = "listen"
    /\ pc' = "read"
    /\ UNCHANGED <<buf, size, source, dgram, request, response, log, retErr,
                   codecVars, ptrVars>>

ListenUDPError ==
    /\ pc = "listen"
    /\ pc' = "returned"
    /\ retErr' = "listen"
    /\ UNCHANGED <<buf, size, source, dgram, request, response, log,
                   codecVars, ptrVars>>

\* line 32: the datagram's bytes overwrite the front of buf, the rest of
\* buf keeps what it held
ReadFromUDP ==
    /\ pc = "read"
    /\ Received < MaxDatagrams
    /\ \E d \in Datagrams, a \in Sources :
        /\ buf' = d.bytes \o SubSeq(buf, Len(d.bytes) + 1, Len(buf))
        /\ size' = Len(d.bytes)
        /\ source' = a
        /\ dgram' = d
        /\ log' = Append(log, [op |-> "recv", addr |-> a, kind |-> d.kind])
    /\ pc' = "parse"
    /\ UNCHANGED <<request, response, retErr,
                   codecVars, ptrVars>>

\* lines 33-35
ReadFromUDPError ==
    /\ pc = "read"
    /\ pc' = "returned"
    /\ retErr' = "read"
    /\ UNCHANGED <<buf, size, source, dgram, request, response, log,
                   codecVars, ptrVars>>

\* line 37: request := ParseRequest(buf[:size])
Parse ==
    /\ pc = "parse"
    /\ LET req == ParseRequest([arr |-> BufArray, len |-> size]) IN
        /\ request' = req
        /\ pc' = IF req.status = "ok" THEN "build" ELSE "crashed"
    /\ UNCHANGED <<buf, size, source, dgram, response, log, retErr,
                   codecVars, ptrVars>>

\* lines 42-56
Build ==
    /\ pc = "build"
    /\ response' = BuildResponse(request)
    /\ pc' = "write"
    /\ UNCHANGED <<buf, size, source, dgram, request, log, retErr,
                   codecVars, ptrVars>>

\* line 58, and the end of the iteration: what it declared is gone
WriteToUDP ==
    /\ pc = "write"
    /\ log' = Append(log, [op |-> "send", addr |-> ResponseDest(source),
                           kind |-> dgram.kind])
    /\ pc' = "read"
    /\ size' = 0
    /\ source' = Nil
    /\ dgram' = NoDatagram
    /\ request' = Nil
    /\ response' = <<>>
    /\ UNCHANGED <<buf, retErr, codecVars, ptrVars>>

\* lines 59-61
WriteToUDPError ==
    /\ pc = "write"
    /\ pc' = "returned"
    /\ retErr' = "write"
    /\ UNCHANGED <<buf, size, source, dgram, request, response, log,
                   codecVars, ptrVars>>

SrvNext ==
    \/ ListenUDP
    \/ ListenUDPError
    \/ ReadFromUDP
    \/ ReadFromUDPError
    \/ Parse
    \/ Build
    \/ WriteToUDP
    \/ WriteToUDPError

---------------------------------------------------------------------------
(* The codec applied to drawn names and questions *)

NameAlphabet == {Dot, 97, 98}

SmallNames == UNION {[1..n -> NameAlphabet] : n \in 0..MaxNameLen}

\* names of long labels: the longest label a name may have, one close to
\* it, and one whose length byte has the two top bits set
LongLabelLens == {61, 63, 192}

LongLabel(n) == [i \in 1..n |-> 120]

LongNames ==
    UNION {{Join([i \in 1..k |-> LongLabel(f[i])]) : f \in [1..k -> LongLabelLens]} :
             k \in 1..MaxLongLabels}

NameInputs == SmallNames \cup LongNames
TypeInputs == {1, 28, 4660, 65535}
ClassInputs == {1, 255, 256}

CodecInit ==
    /\ phase = "start"
    /\ inName \in NameInputs
    /\ inType \in TypeInputs
    /\ inClass \in ClassInputs
    /\ enc = <<>>
    /\ dec = Nil

CodecIdle ==
    /\ phase = "idle"
    /\ inName = <<>>
    /\ inType = 0
    /\ inClass = 0
    /\ enc = <<>>
    /\ dec = Nil

EncodeName ==
    /\ phase = "start"
    /\ enc' = EncodeDomainName(inName)
    /\ phase' = "encoded"
    /\ UNCHANGED <<inName, inType, inClass, dec, srvVars, ptrVars>>

DecodeName ==
    /\ phase = "encoded"
    /\ dec' = ParseDomainName(MkSlice(enc), 0)
    /\ phase' = "decoded"
    /\ UNCHANGED <<inName, inType, inClass, enc, srvVars, ptrVars>>

MarshalQuestion ==
    /\ phase = "start"
    /\ enc' = QuestionMarshal(Question(inName, inType, inClass))
    /\ phase' = "marshalled"
    /\ UNCHANGED <<inName, inType, inClass, dec, srvVars, ptrVars>>

ParseMarshalled ==
    /\ phase = "marshalled"
    /\ dec' = ParseQuestion(MkSlice(enc), 0)
    /\ phase' = "parsed"
    /\ UNCHANGED <<inName, inType, inClass, enc, srvVars, ptrVars>>

CodecNext ==
    \/ EncodeName
    \/ DecodeName
    \/ MarshalQuestion
    \/ ParseMarshalled

---------------------------------------------------------------------------
(* ParseDomainName applied to messages with compression pointers.  A       *)
(* message is laid down name by name: some labels, then the terminator or  *)
(* a pointer.  nameAt records, for every offset at which a name or a       *)
(* suffix of one was laid down whole, the name that stands there.          *)

\* the largest 14-bit target
MaxPointer == 63 * 256 + 255

LabelPool == <<<<97>>, <<98, 99>>, <<100>>, <<101, 102, 103>>>>

\* how many labels stand in front of a name's terminator or pointer
LabelCounts == {0, 1, 2}

\* the k labels of the n-th name laid down
LabelsFor(n, k) ==
    [j \in 1..k |-> LabelPool[((n + j - 2) % Len(LabelPool)) + 1]]

\* a message starts empty, or after bytes that hold no name
Preambles == {<<>>, [i \in 1..256 |-> 7]}

\* offset of label j of labels laid down from start (j = k + 1: what follows)
RECURSIVE LabelStart(_, _, _)
LabelStart(start, labels, j) ==
    IF j = 1 THEN start
    ELSE LabelStart(start + 1 + Len(Head(labels)), Tail(labels), j - 1)

\* the labels of a k-label name at which a suffix of it is recorded: each
\* label, and for a name of no label the terminator or pointer itself
SuffixStarts(k) == IF k = 0 THEN {1} ELSE 1..k

WirePointer(t) == <<192 + (t \div 256), t % 256>>

NoResult == [status |-> "none", name |-> <<>>, offset |-> 0]

PtrInit ==
    /\ msg \in Preambles
    /\ nameAt = {}
    /\ entries = <<>>
    /\ res = NoResult
    /\ resStart = 0

PtrIdle ==
    /\ msg = <<>>
    /\ nameAt = {}
    /\ entries = <<>>
    /\ res = NoResult
    /\ resStart = 0

\* offsets of nameAt are kept as a set of pairs <<offset, name>>
NameOffsets == {p[1] : p \in nameAt}
NameOf(off) == (CHOOSE p \in nameAt : p[1] = off)[2]

\* a name ending in the terminator
AppendRooted ==
    /\ Len(entries) < MaxEntries
    /\ \E k \in LabelCounts :
        LET labels == LabelsFor(Len(entries) + 1, k)
            start == Len(msg)
        IN
        /\ msg' = msg \o WireLabels(labels) \o <<0>>
        /\ nameAt' = nameAt \cup
               {<<LabelStart(start, labels, j), Join(SubSeq(labels, j, k))>> :
                    j \in SuffixStarts(k)}
        /\ entries' = Append(entries,
               [start |-> start, labels |-> labels, end |-> "root",
                ptrPos |-> LabelStart(start, labels, k + 1), target |-> 0,
                resolved |-> FALSE, targetName |-> <<>>])
    /\ res' = NoResult
    /\ resStart' = 0
    /\ UNCHANGED <<srvVars, codecVars>>

\* a name ending in a pointer: to a name laid down before, to the pointer
\* itself, past it, or past the largest message
AppendPointed ==
    /\ Len(entries) < MaxEntries
    /\ \E k \in LabelCounts :
        LET labels == LabelsFor(Len(entries) + 1, k)
            start == Len(msg)
            ptrPos == LabelStart(start, labels, k + 1)
        IN
        \E t \in NameOffsets \cup {ptrPos, ptrPos + 2, MaxPointer} :
            LET known == t \in NameOffsets
                tail == IF known THEN NameOf(t) ELSE <<>>
            IN
            /\ msg' = msg \o WireLabels(labels) \o WirePointer(t)
            /\ nameAt' =
                   IF known
                   THEN nameAt \cup
                        {<<LabelStart(start, labels, j),
                           IF j > k THEN tail
                           ELSE Join(SubSeq(labels, j, k)) \o <<Dot>> \o tail>> :
                             j \in SuffixStarts(k)}
                   ELSE nameAt
            /\ entries' = Append(entries,
                   [start |-> start, labels |-> labels, end |-> "ptr",
                    ptrPos |-> ptrPos, target |-> t,
                    resolved |-> known, targetName |-> tail])
    /\ res' = NoResult
    /\ resStart' = 0
    /\ UNCHANGED <<srvVars, codecVars>>

\* ParseDomainName(msg, start of a name laid down)
DecodeAt ==
    /\ res = NoResult
    /\ \E i \in 1..Len(entries) :
        /\ res' = ParseDomainName(MkSlice(msg), entries[i].start)
        /\ resStart' = entries[i].start
    /\ UNCHANGED <<msg, nameAt, entries, srvVars, codecVars>>

PtrNext ==
    \/ AppendRooted
    \/ AppendPointed
    \/ DecodeAt

---------------------------------------------------------------------------
(* The specifications *)

Init == SrvInit /\ CodecIdle /\ PtrIdle
Next == SrvNext
Spec == Init /\ [][Next]_vars

InitCodec == SrvIdle /\ CodecInit /\ PtrIdle
SpecCodec == InitCodec /\ [][CodecNext]_vars

InitPointer == SrvIdle /\ CodecIdle /\ PtrInit
SpecPointer == InitPointer /\ [][PtrNext]_vars

---------------------------------------------------------------------------
(* Properties *)

Labels(name) == Split(name)

\* a well-formed name: the root, or dot-separated labels of 1 to 63 bytes
\* whose encoding (a length byte per label, the terminator) is at most 255
WellFormed(name) ==
    \/ name = <<>>
    \/ /\ \A i \in 1..Len(Labels(name)) : Len(Labels(name)[i]) \in 1..63
       /\ Len(name) + 2 <= 255

\* C1: for every well-formed name N, ParseDomainName(EncodeDomainName(N), 0)
\* returns N and an offset equal to the length of the encoded bytes.
C1_RoundTrip ==
    (phase = "decoded" /\ WellFormed(inName)) => dec = Ok(inName, Len(enc))

C1_Witness ==
    /\ phase = "decoded"
    /\ WellFormed(inName)
    /\ Len(Labels(inName)) >= 2
    /\ \E i \in 1..Len(Labels(inName)) : Len(Labels(inName)[i]) = 63
    /\ dec = Ok(inName, Len(inName) + 2)

\* the entry whose decoding res holds
Decoded(e) == res # NoResult /\ e.start = resStart

EntrySet == {entries[i] : i \in 1..Len(entries)}

\* C2: when ParseDomainName meets a pointer after k >= 0 labels and the
\* pointer's target is a smaller offset holding a name laid down whole
\* (which may itself end in a backward pointer), the result is the k labels,
\* a dot and the name at the target (the name at the target alone when
\* k = 0), and the returned offset is 2 past the pointer's first byte.
C2_PointerResolved ==
    \A e \in EntrySet :
        (Decoded(e) /\ e.end = "ptr" /\ e.resolved /\ e.target < e.ptrPos) =>
            res = Ok(IF Len(e.labels) = 0 THEN e.targetName
                     ELSE Join(e.labels) \o <<Dot>> \o e.targetName,
                     e.ptrPos + 2)

\* a name of at least one label that points at a name that is itself some
\* labels and a pointer, in a message whose offsets need the pointer's
\* first byte
C2_Witness ==
    \E e \in EntrySet, t \in EntrySet :
        /\ Decoded(e) /\ e.end = "ptr" /\ e.resolved
        /\ Len(e.labels) >= 1
        /\ t.start = e.target /\ t.end = "ptr" /\ t.resolved
        /\ Len(t.labels) >= 1
        /\ e.target >= 256
        /\ res.status = "ok"
        /\ res.offset = e.ptrPos + 2

\* C3: decoding a name with a pointer whose target is at or past the
\* pointer's own position ends in a rejection: no recursion without end, no
\* crash.
C3_MalformedPointerRejected ==
    \A e \in EntrySet :
        (Decoded(e) /\ e.end = "ptr" /\ e.target >= e.ptrPos) =>
            /\ res.status # "overflow"
            /\ res.status # "panic"
            /\ res.status = "rejected"

\* what Listen makes of a datagram that is the first it receives
FirstSlice(bytes) ==
    [arr |-> bytes \o Zeros(BufSize - Len(bytes)), len |-> Len(bytes)]
RequestAlone(bytes) == ParseRequest(FirstSlice(bytes))
ResponseAlone(bytes) == BuildResponse(RequestAlone(bytes))

\* C4: the parsed request and the response sent for a datagram are those
\* its own bytes give, whatever datagrams were received before it, also
\* when it is shorter than 12 bytes.
C4_NoStateCarried ==
    /\ pc \in {"build", "write"} => request = RequestAlone(dgram.bytes)
    /\ pc = "write" => response = ResponseAlone(dgram.bytes)

DecodeFails(kind) == kind \in {"truncated", "overrun", "badptr"}

\* C5: a datagram that fails to decode (shorter than 12 bytes, a label
\* running past the end, a malformed pointer) never crashes the server and
\* is dropped: no response is sent for it.
C5_OffendingDatagramDropped ==
    /\ pc # "crashed"
    /\ \A i \in 1..Len(log) : log[i].op = "send" => ~DecodeFails(log[i].kind)

\* C6: the response is 512 bytes, the first 12 the response header, the
\* other 500 zero; the header has the parsed request's ID and counts, QR
\* set and every other flag bit zero (flags word 0x8000).
C6_ResponseHeader ==
    pc = "write" =>
        /\ Len(response) = 512
        /\ SubSeq(response, 1, 12) =
               <<request.Header.ID \div 256, request.Header.ID % 256,
                 128, 0,
                 request.Header.QDCount \div 256, request.Header.QDCount % 256,
                 request.Header.ANCount \div 256, request.Header.ANCount % 256,
                 request.Header.NSCount \div 256, request.Header.NSCount % 256,
                 request.Header.ARCount \div 256, request.Header.ARCount % 256>>
        /\ \A i \in 13..512 : response[i] = 0

C6_Witness ==
    /\ pc = "write"
    /\ size >= 12
    /\ request.Header.ID = 43981
    /\ request.Header.Flag = 65535
    /\ request.Header.NSCount = 258
    /\ response[1] = 171 /\ response[2] = 205 /\ response[3] = 128

\* C7: for a datagram with QDCount = 1 and a question for name N, type T,
\* class C, the parsed Request's Question has Name N, Type T and Class C.
C7_RequestHoldsQuestion ==
    (pc \in {"build", "write"} /\ dgram.kind = "query") =>
        request.Question = Iface(dgram.q)

IsRoot(name) == name = <<>> \/ name = <<Dot>>

\* C8: EncodeDomainName("") and EncodeDomainName(".") both return [0x00],
\* and ParseDomainName([0x00], 0) returns the empty name with offset 1.
C8_RootDomain ==
    /\ (phase \in {"encoded", "decoded"} /\ IsRoot(inName)) => enc = <<0>>
    /\ (phase = "decoded" /\ enc = <<0>>) => dec = Ok(<<>>, 1)

C8_Witness ==
    /\ phase = "decoded"
    /\ inName = <<Dot>>
    /\ enc = <<0>>
    /\ dec.status = "ok"

\* C9: for a question with a well-formed name and any 16-bit type and
\* class, Marshal gives the name's encoding, then Type, then Class, both
\* big-endian, and ParseQuestion of it returns the same question and an
\* offset of the name's encoded length plus 4.
C9_QuestionRoundTrip ==
    (WellFormed(inName) /\ phase \in {"marshalled", "parsed"}) =>
        /\ enc = EncodeDomainName(inName)
                     \o <<inType \div 256, inType % 256,
                          inClass \div 256, inClass % 256>>
        /\ phase = "parsed" =>
               dec = QOk(Question(inName, inType, inClass),
                         Len(EncodeDomainName(inName)) + 4)

C9_Witness ==
    /\ phase = "parsed"
    /\ WellFormed(inName)
    /\ Len(Labels(inName)) >= 2
    /\ inType = 4660
    /\ inClass = 256
    /\ dec.status = "ok"
    /\ dec.q.Type = 4660

\* C10: datagrams are handled one at a time in the order receive, parse,
\* build, send: every receive is followed by one send to that datagram's
\* source before the next receive, no send comes without its receive, and
\* once in the loop Listen ends only on a receive or a send error.
C10_OneAtATime ==
    /\ pc # "crashed"
    /\ \A i \in 1..Len(log) :
           IF i % 2 = 1 THEN log[i].op = "recv"
           ELSE log[i].op = "send" /\ log[i].addr = log[i - 1].addr
    /\ pc = "read" => Len(log) % 2 = 0
    /\ pc \in {"parse", "build", "write"} =>
           (Len(log) % 2 = 1 /\ log[Len(log)].addr = source)
    /\ (pc = "returned" /\ log # <<>>) => retErr \in {"read", "write"}
    /\ (pc = "returned" /\ retErr = "read") => Len(log) % 2 = 0

C10_Witness ==
    /\ pc = "read"
    /\ Len(log) = 4
    /\ log[1].addr # log[3].addr
    /\ log[2].addr = log[1].addr
    /\ log[4].addr = log[3].addr

===========================================================================
